---- MODULE Spec2Model ----
(***************************************************************************)
(* Model of algcalc's expression engine (src/base.py): Variables, the      *)
(* Operation classes (Sum, Product, Power, Fraction, negation), their      *)
(* text / LaTeX rendering computed at construction, the operator           *)
(* overloads with their flattening rules, and the lowering of a tree into  *)
(* a task that is then computed.                                           *)
(*                                                                         *)
(* Python strings are sequences of one-character strings.  Objects live in *)
(* a heap: the Operation objects in the sequence `heap` (an object's id is *)
(* its index), the Variable objects in `varobj`.  An operand is a record   *)
(* [t, n]: an int constant n, a float constant n.0, the Variable number n  *)
(* or the Operation with id n.                                             *)
(***************************************************************************)
EXTENDS Integers, Sequences, FiniteSets, TLC

(***************************************************************************)
(* Bounds of the model.                                                    *)
(***************************************************************************)
MaxExprs == 2        \* Operation objects in a session of the full client
MaxRingExprs == 3    \* ... of the client that adds, multiplies and negates
MaxBuildExprs == 2   \* ... of the client that only builds expressions
MaxOneExprs == 2     \* ... of the client with the single Variable x
MaxUnaryExprs == 3   \* ... of the client that negates and inverts one expression
MaxMag == 1000       \* largest numerator / denominator the exact arithmetic keeps

(***************************************************************************)
(* Operands.                                                               *)
(***************************************************************************)
IntC(n) == [t |-> "int", n |-> n]
FloatC(n) == [t |-> "float", n |-> n]
Var(i) == [t |-> "var", n |-> i]
Ref(i) == [t |-> "op", n |-> i]

VarNames == <<"x", "y">>
VarIds == 1..Len(VarNames)

IsConst(o) == o.t \in {"int", "float"}

(***************************************************************************)
(* Strings.                                                                *)
(***************************************************************************)
DigitChars == <<"0", "1", "2", "3", "4", "5", "6", "7", "8", "9">>

RECURSIVE NatStr(_)
NatStr(n) == IF n < 10 THEN <<DigitChars[n + 1]>>
             ELSE NatStr(n \div 10) \o <<DigitChars[(n % 10) + 1]>>

\* str(int)
IntStr(n) == IF n < 0 THEN <<"-">> \o NatStr(0 - n) ELSE NatStr(n)

\* str(float) of the integer-valued float n.0
FloatStr(n) == IntStr(n) \o <<".", "0">>

RECURSIVE Concat(_)
Concat(ss) == IF ss = <<>> THEN <<>> ELSE Head(ss) \o Concat(Tail(ss))

\* sep.join(ss)
RECURSIVE Join(_, _)
Join(sep, ss) == IF ss = <<>> THEN <<>>
                 ELSE IF Len(ss) = 1 THEN ss[1]
                 ELSE ss[1] \o sep \o Join(sep, Tail(ss))

\* sub in s
Contains(s, sub) ==
    \E i \in 1..(Len(s) - Len(sub) + 1) : SubSeq(s, i, i + Len(sub) - 1) = sub

\* s.strip(chars)
RECURSIVE LStrip(_, _)
LStrip(s, chars) == IF s # <<>> /\ Head(s) \in chars THEN LStrip(Tail(s), chars) ELSE s
RECURSIVE RStrip(_, _)
RStrip(s, chars) == IF s # <<>> /\ s[Len(s)] \in chars
                    THEN RStrip(SubSeq(s, 1, Len(s) - 1), chars) ELSE s
Strip(s, chars) == RStrip(LStrip(s, chars), chars)

Digits == {DigitChars[i] : i \in 1..10}
AllDigits(s) == \A i \in 1..Len(s) : s[i] \in Digits

\* float(s) succeeds: optional blanks, optional sign, then digits with an
\* optional point (over the characters the renderer can produce)
FloatParses(s) ==
    LET t == Strip(s, {" "})
        u == IF t # <<>> /\ Head(t) \in {"-", "+"} THEN Tail(t) ELSE t
    IN  /\ u # <<>>
        /\ \E p \in 0..Len(u) :
             \/ p = 0 /\ AllDigits(u)
             \/ /\ p > 0
                /\ u[p] = "."
                /\ AllDigits(SubSeq(u, 1, p - 1))
                /\ AllDigits(SubSeq(u, p + 1, Len(u)))
                /\ Len(u) > 1

(***************************************************************************)
(* Python values: what a call returns or raises.  A number is the exact    *)
(* rational n/d with the type that carries it (int, float, or numpy's      *)
(* int64 / float64); "obj" is a reference to the Operation with id n;      *)
(* "raise" carries the exception types the call can raise.  "other" is an  *)
(* outcome the exact arithmetic leaves open: a float it does not keep      *)
(* (inf, nan, a root, a numerator or denominator above MaxMag), a complex  *)
(* root of a negative base, or the OverflowError of float.__pow__.         *)
(***************************************************************************)
Val(k, ty, n, d, es) == [k |-> k, ty |-> ty, n |-> n, d |-> d, es |-> es]
None == Val("None", "", 0, 1, {})
NotImplemented == Val("NotImplemented", "", 0, 1, {})
Other == Val("other", "", 0, 1, {})
Obj(i) == Val("obj", "", i, 1, {})
Raise(es) == Val("raise", "", 0, 1, es)

(***************************************************************************)
(* Rendering helpers.                                                      *)
(***************************************************************************)
\* repr(obj)
Repr(h, o) ==
    CASE o.t = "int" -> IntStr(o.n)
      [] o.t = "float" -> FloatStr(o.n)
      [] o.t = "var" -> <<VarNames[o.n]>>
      [] OTHER -> h[o.n].repr_str

turn_into_bracket(latex) ==
    LET string == SubSeq(latex, 2, Len(latex) - 1)
        bracket == IF <<string[1], string[Len(string)]>> = <<"(", ")">>
                   THEN string
                   ELSE <<"(">> \o string \o <<")">>
    IN  <<"{">> \o bracket \o <<"}">>

\* check_inv that forgets the negative constants
check_inv_NoConst(h, child, type) ==
    IF type = "neg"
    THEN CASE IsConst(child) -> FALSE
           [] child.t = "var" -> FALSE
           [] OTHER -> h[child.n].inverted = type
    ELSE FALSE

check_inv(h, child, type) ==
    IF type = "neg"
    THEN CASE IsConst(child) -> child.n < 0
           [] child.t = "var" -> FALSE
           [] OTHER -> h[child.n].inverted = type
    ELSE FALSE

get_latex_repr(h, o) ==
    CASE o.t = "int" -> <<"{">> \o IntStr(o.n) \o <<"}">>
      [] o.t = "float" -> <<"{">> \o FloatStr(o.n) \o <<"}">>
      [] o.t = "var" -> <<"{", VarNames[o.n], "}">>
      [] OTHER -> h[o.n].latex_str

MapSeq(F(_), s) == [i \in 1..Len(s) |-> F(s[i])]

(***************************************************************************)
(* Operation.__init__: the new object takes the next id; every argument    *)
(* that has a `node` attribute (a Variable or an Operation) gets its       *)
(* `parent` attribute overwritten.                                         *)
(***************************************************************************)
HasNode(o) == o.t \in {"var", "op"}

Operation__init__(st, cls, op, repr_str, latex_str, args, inverted) ==
    LET id == Len(st.heap) + 1
        obj == [cls |-> cls, func |-> op, children |-> args,
                repr_str |-> repr_str, latex_str |-> latex_str,
                inverted |-> inverted, parent |-> 0]
        isArg(o) == \E k \in 1..Len(args) : HasNode(args[k]) /\ args[k] = o
        heap1 == [i \in 1..Len(st.heap) |->
                    IF isArg(Ref(i)) THEN [st.heap[i] EXCEPT !.parent = id]
                    ELSE st.heap[i]]
        varobj1 == [v \in VarIds |->
                    IF isArg(Var(v)) THEN [st.varobj[v] EXCEPT !.parent = id]
                    ELSE st.varobj[v]]
    IN  [st |-> [heap |-> Append(heap1, obj), varobj |-> varobj1], ret |-> Obj(id)]

Fail(st, e) == [st |-> st, ret |-> Raise({e})]

(***************************************************************************)
(* Sum                                                                     *)
(***************************************************************************)
Sum_make_latex(h, input) ==
    IF check_inv(h, input, "neg")
    THEN get_latex_repr(h, input)
    ELSE <<" ", "+", " ">> \o get_latex_repr(h, input)

Sum__init__(st, inputs) ==
    IF inputs = <<>> THEN Fail(st, "IndexError")
    ELSE
    LET h == st.heap
        R(o) == Repr(h, o)
        M(o) == Sum_make_latex(h, o)
        repr_str == Join(<<" ", "+", " ">>, MapSeq(R, inputs))
        latex_str == <<"{">> \o get_latex_repr(h, inputs[1])
                       \o Concat(MapSeq(M, Tail(inputs))) \o <<"}">>
    IN  Operation__init__(st, "Sum", "_sum", repr_str, latex_str, inputs, "None")

(***************************************************************************)
(* Product                                                                 *)
(***************************************************************************)
latex_check_floatable(str) == FloatParses(Strip(str, {"{", "(", ")", "}"}))

latex_sort_key(latex) ==
    IF latex_check_floatable(latex) THEN 0
    ELSE IF latex[2] = "-" THEN 1
    ELSE IF Contains(latex, <<"\\", "f", "r", "a", "c">>) THEN 2
    ELSE IF latex[2] = "(" /\ latex[Len(latex) - 1] = ")" THEN 4
    ELSE 3

\* sorted(latex_list, key=...): a stable sort on the keys 0..4
SortedByKey(latex_list) ==
    LET Bucket(k) == SelectSeq(latex_list, LAMBDA l : latex_sort_key(l) = k)
    IN  Bucket(0) \o Bucket(1) \o Bucket(2) \o Bucket(3) \o Bucket(4)

Product_make_latex(h, inputs) ==
    LET L(o) == IF o.t = "op" /\ h[o.n].cls = "Sum"
                THEN turn_into_bracket(get_latex_repr(h, o))
                ELSE get_latex_repr(h, o)
        latex_list == MapSeq(L, inputs)
        sorted_latex_list == SortedByKey(latex_list)
        mapping == MapSeq(latex_sort_key, sorted_latex_list)
    IN  IF mapping[1] = 0 /\ mapping[2] = 2
        THEN [sorted_latex_list EXCEPT ![2] = turn_into_bracket(sorted_latex_list[2])]
        ELSE sorted_latex_list

Product__init__(st, inputs) ==
    IF Len(inputs) < 2 THEN Fail(st, "IndexError")
    ELSE
    LET h == st.heap
        R(o) == Repr(h, o)
        repr_str == Join(<<" ", "*", " ">>, MapSeq(R, inputs))
        latex_str == <<"{">> \o Concat(Product_make_latex(h, inputs)) \o <<"}">>
    IN  Operation__init__(st, "Product", "_product", repr_str, latex_str, inputs, "None")

(***************************************************************************)
(* Power and Fraction                                                      *)
(***************************************************************************)
Power__init__(st, inputs) ==
    IF Len(inputs) < 2 THEN Fail(st, "IndexError")
    ELSE
    LET h == st.heap
        R(o) == Repr(h, o)
        repr_str == Join(<<"*", "*">>, MapSeq(R, inputs))
        latex_str == <<"{">> \o turn_into_bracket(get_latex_repr(h, inputs[1]))
                       \o <<"^", "{">> \o get_latex_repr(h, inputs[2]) \o <<"}", "}">>
    IN  Operation__init__(st, "Power", "__pow__", repr_str, latex_str, inputs, "None")

Fraction__init__(st, inputs) ==
    IF Len(inputs) < 2 THEN Fail(st, "IndexError")
    ELSE
    LET h == st.heap
        repr_str == Repr(h, inputs[1]) \o <<"/">> \o Repr(h, inputs[2])
        latex_str == <<"{", "\\", "f", "r", "a", "c", "{">> \o get_latex_repr(h, inputs[1])
                       \o <<"}", "{">> \o get_latex_repr(h, inputs[2]) \o <<"}", "}">>
    IN  Operation__init__(st, "Fraction", "_divide", repr_str, latex_str, inputs, "None")

(***************************************************************************)
(* Methods.  Each takes the object state and returns the state after the   *)
(* call with what the call returned or raised.                             *)
(***************************************************************************)
\* the operand a returned value stands for when it is passed on
ToOperand(v) == IF v.k = "obj" THEN Ref(v.n)
                ELSE IF v.ty = "int" THEN IntC(v.n) ELSE FloatC(v.n)

ClassOf(st, o) == IF o.t = "var" THEN "Variable" ELSE st.heap[o.n].cls

Operation__neg__(st, self) ==
    LET repr_str == <<"-">> \o Repr(st.heap, self)
        latex_str == <<"{", "-">> \o get_latex_repr(st.heap, self) \o <<"}">>
    IN  Operation__init__(st, "Operation", "__neg__", repr_str, latex_str, <<self>>, "neg")

Sum__neg__(st, self) ==
    LET repr_str == <<"-">> \o Repr(st.heap, self)
        latex_str == <<"{", "-", "(">> \o get_latex_repr(st.heap, self) \o <<")", "}">>
    IN  Operation__init__(st, "Operation", "__neg__", repr_str, latex_str, <<self>>, "neg")

Variable__neg__(st, self) ==
    LET repr_str == <<"-">> \o Repr(st.heap, self)
        latex_str == <<"{">> \o <<"-">> \o get_latex_repr(st.heap, self) \o <<"}">>
    IN  Operation__init__(st, "Operation", "__neg__", repr_str, latex_str, <<self>>, "neg")

\* -o: Python's own negation of a constant, else the class's __neg__
Negate(st, o) ==
    CASE IsConst(o) -> [st |-> st, ret |-> Val("num", o.t, 0 - o.n, 1, {})]
      [] o.t = "var" -> Variable__neg__(st, o)
      [] ClassOf(st, o) = "Sum" -> Sum__neg__(st, o)
      [] OTHER -> Operation__neg__(st, o)

Operation__add__(st, self, other) == Sum__init__(st, <<self, other>>)
Operation__radd__(st, self, other) == Sum__init__(st, <<other, self>>)
Operation__sub__(st, self, other) ==
    LET m == Negate(st, other) IN Sum__init__(m.st, <<self, ToOperand(m.ret)>>)
Operation__rsub__(st, self, other) ==
    LET m == Negate(st, self) IN Sum__init__(m.st, <<other, ToOperand(m.ret)>>)
Operation__mul__(st, self, other) == Product__init__(st, <<self, other>>)
Operation__rmul__(st, self, other) == Product__init__(st, <<other, self>>)
Operation__truediv__(st, self, other) == Fraction__init__(st, <<self, other>>)
Operation__rtruediv__(st, self, other) == Fraction__init__(st, <<other, self>>)
Operation__pow__(st, self, other) == Power__init__(st, <<self, other>>)
Operation__rpow__(st, self, other) == Power__init__(st, <<other, self>>)
Operation_reciprocal(st, self) == Fraction__init__(st, <<IntC(1), self>>)

\* Sum.__add__ that extends self's operand list in place
Sum__add__InPlace(st, self, other) ==
    LET added == IF other.t = "op" /\ ClassOf(st, other) = "Sum"
                 THEN st.heap[other.n].children ELSE <<other>>
        inputs == st.heap[self.n].children \o added
    IN  Sum__init__([st EXCEPT !.heap[self.n].children = inputs], inputs)

Sum__add__(st, self, other) ==
    LET added == IF other.t = "op" /\ ClassOf(st, other) = "Sum"
                 THEN st.heap[other.n].children ELSE <<other>>
        inputs == st.heap[self.n].children \o added
    IN  Sum__init__(st, inputs)

Sum__sub__(st, self, other) ==
    LET m == Negate(st, other)
        inputs == m.st.heap[self.n].children \o <<ToOperand(m.ret)>>
    IN  Sum__init__(m.st, inputs)

Product__mul__(st, self, other) ==
    LET added == IF other.t = "op" /\ ClassOf(st, other) = "Product"
                 THEN st.heap[other.n].children ELSE <<other>>
        inputs == st.heap[self.n].children \o added
    IN  Product__init__(st, inputs)

\* Fraction.reciprocal left to the inherited Operation.reciprocal
Fraction_reciprocal_Inherited(st, self) == Fraction__init__(st, <<IntC(1), self>>)

Fraction_reciprocal(st, self) ==
    LET children == st.heap[self.n].children
    IN  IF Len(children) # 2 THEN Fail(st, "ValueError")
        ELSE LET numerator == children[1]
                 denominator == children[2]
             IN  Fraction__init__(st, <<denominator, numerator>>)

Variable__add__(st, self, other) == Sum__init__(st, <<self, other>>)
Variable__radd__(st, self, other) == Sum__init__(st, <<other, self>>)
Variable__sub__(st, self, other) ==
    LET m == Negate(st, other) IN Sum__init__(m.st, <<self, ToOperand(m.ret)>>)
Variable__rsub__(st, self, other) ==
    LET m == Negate(st, self) IN Sum__init__(m.st, <<other, ToOperand(m.ret)>>)
Variable__mul__(st, self, other) == Product__init__(st, <<self, other>>)
Variable__rmul__(st, self, other) == Product__init__(st, <<other, self>>)
Variable__truediv__(st, self, other) == Fraction__init__(st, <<self, other>>)
Variable__rtruediv__(st, self, other) == Fraction__init__(st, <<other, self>>)
Variable__pow__(st, self, other) == Power__init__(st, <<self, other>>)
Variable__rpow__(st, self, other) == Power__init__(st, <<other, self>>)
Variable_reciprocal(st, self) == Fraction__init__(st, <<IntC(1), self>>)

(***************************************************************************)
(* Python's dispatch of `l op r`: the left operand's method when the left  *)
(* operand is a Variable or an Operation, else (a constant on the left)    *)
(* the right operand's reflected method.  The subclasses inherit the       *)
(* reflected methods of Operation unchanged, so none takes priority.       *)
(***************************************************************************)
BinAdd(st, l, r) ==
    CASE l.t = "var" -> Variable__add__(st, l, r)
      [] l.t = "op" /\ ClassOf(st, l) = "Sum" -> Sum__add__(st, l, r)
      [] l.t = "op" /\ ClassOf(st, l) # "Sum" -> Operation__add__(st, l, r)
      [] IsConst(l) /\ r.t = "var" -> Variable__radd__(st, r, l)
      [] OTHER -> Operation__radd__(st, r, l)

BinSub(st, l, r) ==
    CASE l.t = "var" -> Variable__sub__(st, l, r)
      [] l.t = "op" /\ ClassOf(st, l) = "Sum" -> Sum__sub__(st, l, r)
      [] l.t = "op" /\ ClassOf(st, l) # "Sum" -> Operation__sub__(st, l, r)
      [] IsConst(l) /\ r.t = "var" -> Variable__rsub__(st, r, l)
      [] OTHER -> Operation__rsub__(st, r, l)

BinMul(st, l, r) ==
    CASE l.t = "var" -> Variable__mul__(st, l, r)
      [] l.t = "op" /\ ClassOf(st, l) = "Product" -> Product__mul__(st, l, r)
      [] l.t = "op" /\ ClassOf(st, l) # "Product" -> Operation__mul__(st, l, r)
      [] IsConst(l) /\ r.t = "var" -> Variable__rmul__(st, r, l)
      [] OTHER -> Operation__rmul__(st, r, l)

BinTrueDiv(st, l, r) ==
    CASE l.t = "var" -> Variable__truediv__(st, l, r)
      [] l.t = "op" -> Operation__truediv__(st, l, r)
      [] IsConst(l) /\ r.t = "var" -> Variable__rtruediv__(st, r, l)
      [] OTHER -> Operation__rtruediv__(st, r, l)

BinPow(st, l, r) ==
    CASE l.t = "var" -> Variable__pow__(st, l, r)
      [] l.t = "op" -> Operation__pow__(st, l, r)
      [] IsConst(l) /\ r.t = "var" -> Variable__rpow__(st, r, l)
      [] OTHER -> Operation__rpow__(st, r, l)

CallReciprocal(st, a) ==
    CASE a.t = "var" -> Variable_reciprocal(st, a)
      [] ClassOf(st, a) = "Fraction" -> Fraction_reciprocal(st, a)
      [] OTHER -> Operation_reciprocal(st, a)

(***************************************************************************)
(* Exact arithmetic on the numbers.                                        *)
(***************************************************************************)
Abs(n) == IF n < 0 THEN 0 - n ELSE n

RECURSIVE GCD(_, _)
GCD(a, b) == IF b = 0 THEN a ELSE GCD(b, a % b)

\* the number n/d (d # 0) of type ty, in lowest terms
Num(ty, n, d) ==
    LET g == GCD(Abs(n), Abs(d))
        sn == IF d < 0 THEN 0 - n ELSE n
    IN  IF Abs(n) \div g > MaxMag \/ Abs(d) \div g > MaxMag THEN Other
        ELSE Val("num", ty, sn \div g, Abs(d) \div g, {})

RangeOf(s) == {s[i] : i \in 1..Len(s)}

\* the type of a + b
Wider(args) ==
    LET tys == {v.ty : v \in RangeOf(args)}
    IN  IF "float64" \in tys THEN "float64"
        ELSE IF "float" \in tys THEN (IF "int64" \in tys THEN "float64" ELSE "float")
        ELSE IF "int64" \in tys THEN "int64"
        ELSE "int"

NotANumber(v) == v.k \in {"None", "NotImplemented"}

RECURSIVE SumNums(_, _)
SumNums(ty, args) ==
    IF args = <<>> THEN Val("num", ty, 0, 1, {})
    ELSE LET a == Head(args)
             b == SumNums(ty, Tail(args))
         IN  IF b.k # "num" THEN b ELSE Num(ty, a.n * b.d + b.n * a.d, a.d * b.d)

RECURSIVE MulNums(_, _)
MulNums(ty, args) ==
    IF args = <<>> THEN Val("num", ty, 1, 1, {})
    ELSE LET a == Head(args)
             b == MulNums(ty, Tail(args))
         IN  IF b.k # "num" THEN b ELSE Num(ty, a.n * b.n, a.d * b.d)

\* _sum: sum(inputs)
py_sum(args) ==
    IF \E i \in 1..Len(args) : NotANumber(args[i]) THEN Raise({"TypeError"})
    ELSE SumNums(Wider(args), args)

\* _product: np.product(inputs), a numpy scalar
py_product(args) ==
    IF \E i \in 1..Len(args) : NotANumber(args[i]) THEN Raise({"TypeError"})
    ELSE MulNums(IF Wider(args) = "int" THEN "int64" ELSE "float64", args)

\* _divide: one/two; numpy's scalars divide by zero to inf or nan
py_divide(args) ==
    IF Len(args) # 2 THEN Raise({"TypeError"})
    ELSE
    LET one == args[1]
        two == args[2]
        numpy == {one.ty, two.ty} \cap {"int64", "float64"} # {}
    IN  IF NotANumber(one) \/ NotANumber(two) THEN Raise({"TypeError"})
        ELSE IF two.n = 0 THEN (IF numpy THEN Other ELSE Raise({"ZeroDivisionError"}))
        ELSE Num(IF numpy THEN "float64" ELSE "float", one.n * two.d, one.d * two.n)

IsFloatInstance(v) == v.k = "num" /\ v.ty \in {"float", "float64"}

\* float.__neg__
py_neg(args) ==
    LET a == args[1]
    IN  IF ~IsFloatInstance(a) THEN Raise({"TypeError"})
        ELSE Num("float", 0 - a.n, a.d)

\* a^e for a natural e, by repeated multiplication from acc; the product
\* leaves the exact range after few steps unless a is 0, 1 or -1
RECURSIVE NatPowFrom(_, _, _)
NatPowFrom(a, e, acc) ==
    IF e = 0 \/ acc.k # "num" THEN acc
    ELSE NatPowFrom(a, e - 1, Num("float", a.n * acc.n, a.d * acc.d))

NatPow(a, e) ==
    IF a.d = 1 /\ a.n \in {0, 1, 0 - 1}
    THEN Val("num", "float", IF e = 0 \/ a.n = 1 THEN 1
                             ELSE IF a.n = 0 THEN 0
                             ELSE IF e % 2 = 0 THEN 1 ELSE 0 - 1, 1, {})
    ELSE NatPowFrom(a, e, Val("num", "float", 1, 1, {}))

\* float.__pow__: the base must be a float; an exponent that is no int or
\* float is answered with NotImplemented; a third argument must be None
py_pow(args) ==
    LET a == args[1]
        b == args[2]
    IN  IF ~IsFloatInstance(a) THEN Raise({"TypeError"})
        ELSE IF Len(args) > 3 \/ (Len(args) = 3 /\ args[3].k # "None")
             THEN Raise({"TypeError"})
        ELSE IF ~(b.k = "num" /\ b.ty \in {"int", "float", "float64"})
             THEN NotImplemented
        ELSE IF b.d = 1
             THEN (IF b.n >= 0 THEN NatPow(a, b.n)
                   ELSE IF a.n = 0 THEN Raise({"ZeroDivisionError"})
                   ELSE NatPow(Num("float", a.d, a.n), 0 - b.n))
        ELSE IF a.n = 0
             THEN (IF b.n < 0 THEN Raise({"ZeroDivisionError"})
                   ELSE Val("num", "float", 0, 1, {}))
        ELSE IF a.n = a.d THEN Val("num", "float", 1, 1, {})
        ELSE Other

ApplyFunc(func, args) ==
    CASE func = "_sum" -> py_sum(args)
      [] func = "_product" -> py_product(args)
      [] func = "_divide" -> py_divide(args)
      [] func = "__neg__" -> py_neg(args)
      [] OTHER -> py_pow(args)

(***************************************************************************)
(* Lowering and computing.  get_task gives the value a child's task        *)
(* produces; a task whose argument tasks raise does not run, and the       *)
(* computation raises the exception of whichever failing task ran first.   *)
(* An argument outside the exact arithmetic leaves the outcome open.       *)
(***************************************************************************)
RECURSIVE get_task(_, _, _)
create_task(h, vo, id) ==
    LET task_args == [i \in 1..Len(h[id].children) |-> get_task(h, vo, h[id].children[i])]
        raised == UNION {task_args[i].es : i \in 1..Len(task_args)}
    IN  IF \E i \in 1..Len(task_args) : task_args[i].k = "other" THEN Other
        ELSE IF raised # {} THEN Raise(raised)
        ELSE ApplyFunc(h[id].func, task_args)

get_task(h, vo, obj) ==
    CASE IsConst(obj) -> Val("num", obj.t, obj.n, 1, {})
      [] obj.t = "op" -> create_task(h, vo, obj.n)
      [] OTHER -> vo[obj.n].value

\* Operation.compute: the outcome of node.compute()
compute(h, vo, id) == create_task(h, vo, id)

(***************************************************************************)
(* State: the Operation objects built so far, the Variable objects, and    *)
(* what the last call returned or raised.                                  *)
(***************************************************************************)
VARIABLES heap, varobj, last

vars == <<heap, varobj, last>>

St == [heap |-> heap, varobj |-> varobj]

\* Variable.__init__ for each Variable of the session
Variable__init__ == [value |-> None, parent |-> 0]

St0 == [heap |-> <<>>, varobj |-> [v \in VarIds |-> Variable__init__]]

Init ==
    /\ heap = St0.heap
    /\ varobj = St0.varobj
    /\ last = None

Refs == {Ref(i) : i \in 1..Len(heap)}

\* a call of the client: it runs while the session's objects fit the bound
Call(cap, r) ==
    /\ Len(r.st.heap) <= cap
    /\ heap' = r.st.heap
    /\ varobj' = r.st.varobj
    /\ last' = r.ret

Room(cap, l, r) == Len(heap) < cap /\ ~(IsConst(l) /\ IsConst(r))

\* l + r, l - r, l * r, l / r, l ** r with at least one Variable or Operation
Add(cap, l, r) == Room(cap, l, r) /\ Call(cap, BinAdd(St, l, r))
Sub(cap, l, r) == Room(cap, l, r) /\ Call(cap, BinSub(St, l, r))
Mul(cap, l, r) == Room(cap, l, r) /\ Call(cap, BinMul(St, l, r))
TrueDiv(cap, l, r) == Room(cap, l, r) /\ Call(cap, BinTrueDiv(St, l, r))
Pow(cap, l, r) == Room(cap, l, r) /\ Call(cap, BinPow(St, l, r))

\* -a and a.reciprocal() of a Variable or Operation
Neg(cap, a) == Room(cap, a, a) /\ Call(cap, Negate(St, a))
Reciprocal(cap, a) == Room(cap, a, a) /\ Call(cap, CallReciprocal(St, a))

\* Power(*inputs), Fraction(*inputs) called directly
NewPower(cap, inputs) == Len(heap) < cap /\ Call(cap, Power__init__(St, inputs))
NewFraction(cap, inputs) == Len(heap) < cap /\ Call(cap, Fraction__init__(St, inputs))

\* v.set_value(value): self.value = float(value)
set_value(v, value) ==
    /\ varobj' = [varobj EXCEPT ![v].value = Val("num", "float", value.n, 1, {})]
    /\ last' = None
    /\ UNCHANGED heap

\* heap[id].compute()
Evaluate(id) ==
    /\ id \in 1..Len(heap)
    /\ LET r == compute(heap, varobj, id)
       IN  IF r.k = "raise" THEN \E e \in r.es : last' = Raise({e}) ELSE last' = r
    /\ UNCHANGED <<heap, varobj>>

(***************************************************************************)
(* The full client: every operator, constructor and method, over the       *)
(* Variables x, y and the constant 2.                                      *)
(***************************************************************************)
Vars == {Var(v) : v \in VarIds}
Values == {IntC(3), FloatC(5)}

Operands == {IntC(2)} \cup Vars \cup Refs

\* the argument lists of a direct constructor call: one, two or three operands
ArgLists == {SubSeq(<<Var(1), Var(2), IntC(2)>>, 1, n) : n \in 1..3}

Next ==
    \/ \E l, r \in Operands : Add(MaxExprs, l, r)
    \/ \E l, r \in Operands : Sub(MaxExprs, l, r)
    \/ \E l, r \in Operands : Mul(MaxExprs, l, r)
    \/ \E l, r \in Operands : TrueDiv(MaxExprs, l, r)
    \/ \E l, r \in Operands : Pow(MaxExprs, l, r)
    \/ \E a \in Operands : Neg(MaxExprs, a)
    \/ \E a \in Operands : Reciprocal(MaxExprs, a)
    \/ \E inputs \in ArgLists : NewPower(MaxExprs, inputs)
    \/ \E inputs \in ArgLists : NewFraction(MaxExprs, inputs)
    \/ \E v \in VarIds, value \in Values : set_value(v, value)
    \/ \E id \in 1..Len(heap) : Evaluate(id)

Spec == Init /\ [][Next]_vars

(***************************************************************************)
(* The client that only adds, multiplies and negates, over x, y, 1 and 2.  *)
(***************************************************************************)
RingOperands == {IntC(1), IntC(2)} \cup Vars \cup Refs

NextRing ==
    \/ \E l, r \in RingOperands : Add(MaxRingExprs, l, r)
    \/ \E l, r \in RingOperands : Mul(MaxRingExprs, l, r)
    \/ \E a \in RingOperands : Neg(MaxRingExprs, a)

SpecRing == Init /\ [][NextRing]_vars

(***************************************************************************)
(* The client that only builds expressions, with every operator, over x,   *)
(* y, 2 and -1.                                                            *)
(***************************************************************************)
BuildOperands == {IntC(2), IntC(0 - 1)} \cup Vars \cup Refs

NextBuild ==
    \/ \E l, r \in BuildOperands : Add(MaxBuildExprs, l, r)
    \/ \E l, r \in BuildOperands : Sub(MaxBuildExprs, l, r)
    \/ \E l, r \in BuildOperands : Mul(MaxBuildExprs, l, r)
    \/ \E l, r \in BuildOperands : TrueDiv(MaxBuildExprs, l, r)
    \/ \E l, r \in BuildOperands : Pow(MaxBuildExprs, l, r)
    \/ \E a \in BuildOperands : Neg(MaxBuildExprs, a)
    \/ \E a \in BuildOperands : Reciprocal(MaxBuildExprs, a)

SpecBuild == Init /\ [][NextBuild]_vars

(***************************************************************************)
(* The client with the single Variable x and the constant 2: it builds     *)
(* with every operator, binds x and evaluates.                             *)
(***************************************************************************)
OneOperands == {IntC(2), Var(1)} \cup Refs
OneValues == {IntC(0), FloatC(3)}

NextOne ==
    \/ \E l, r \in OneOperands : Add(MaxOneExprs, l, r)
    \/ \E l, r \in OneOperands : Sub(MaxOneExprs, l, r)
    \/ \E l, r \in OneOperands : Mul(MaxOneExprs, l, r)
    \/ \E l, r \in OneOperands : TrueDiv(MaxOneExprs, l, r)
    \/ \E l, r \in OneOperands : Pow(MaxOneExprs, l, r)
    \/ \E a \in OneOperands : Neg(MaxOneExprs, a)
    \/ \E a \in OneOperands : Reciprocal(MaxOneExprs, a)
    \/ \E value \in OneValues : set_value(1, value)
    \/ \E id \in 1..Len(heap) : Evaluate(id)

SpecOne == Init /\ [][NextOne]_vars

(***************************************************************************)
(* The client that has built one expression e and then negates, inverts,   *)
(* binds and evaluates.                                                    *)
(***************************************************************************)
Seeds == {BinAdd(St0, Var(1), Var(2)), BinAdd(St0, Var(1), IntC(0 - 1)),
          BinMul(St0, IntC(2), Var(1)),
          BinTrueDiv(St0, Var(1), Var(2)), BinTrueDiv(St0, IntC(2), Var(1)),
          BinPow(St0, Var(1), IntC(2)), BinPow(St0, IntC(2), Var(1)),
          Sum__init__(St0, <<IntC(1), IntC(2)>>)}

InitUnary ==
    \E s \in Seeds :
        /\ heap = s.st.heap
        /\ varobj = s.st.varobj
        /\ last = s.ret

UnaryOperands == Vars \cup Refs
UnaryValues == {IntC(3), FloatC(0 - 2)}

NextUnary ==
    \/ \E a \in UnaryOperands : Neg(MaxUnaryExprs, a)
    \/ \E a \in UnaryOperands : Reciprocal(MaxUnaryExprs, a)
    \/ \E v \in VarIds, value \in UnaryValues : set_value(v, value)
    \/ \E id \in 1..Len(heap) : Evaluate(id)

SpecUnary == InitUnary /\ [][NextUnary]_vars

(***************************************************************************)
(* Properties.                                                             *)
(***************************************************************************)
NewId == Len(heap) + 1
IsBuilt(o) == o.t \in {"var", "op"}
HasClass(h, o, cls) == o.t = "op" /\ h[o.n].cls = cls
StartsWith(s, p) == Len(s) >= Len(p) /\ SubSeq(s, 1, Len(p)) = p
EndsWith(s, p) == Len(s) >= Len(p) /\ SubSeq(s, Len(s) - Len(p) + 1, Len(s)) = p

\* a Variable or an Expression that is not itself of class cls
IsTerm(h, o, cls) == IsBuilt(o) /\ ~HasClass(h, o, cls)

\* o is the cls of two terms: b + c, resp. b * c
IsPair(h, o, cls) ==
    /\ HasClass(h, o, cls)
    /\ Len(h[o.n].children) = 2
    /\ IsTerm(h, h[o.n].children[1], cls)
    /\ IsTerm(h, h[o.n].children[2], cls)

IsGrouping(h, l, r, cls) ==
    \/ IsPair(h, l, cls) /\ IsTerm(h, r, cls)
    \/ IsTerm(h, l, cls) /\ IsPair(h, r, cls)

GroupingFlat(h, l, r, cls) ==
    IF IsPair(h, l, cls) THEN h[l.n].children \o <<r>>
    ELSE <<l>> \o h[r.n].children

\* the object the step has just built is of class cls, with these operands,
\* none of them of class cls
BuiltFlat(cls, operands) ==
    /\ Len(heap') = NewId
    /\ heap'[NewId].cls = cls
    /\ heap'[NewId].children = operands
    /\ \A k \in 1..Len(operands) : ~HasClass(heap', operands[k], cls)

\* C1: flattening law.  For terms a, b, c (Variables or Expressions, none a
\* Sum), (a + b) + c and a + (b + c) both build a Sum with operand list
\* [a, b, c] and no Sum among its operands; likewise for * and Product.
C1_FlatteningLaw ==
    [][\A l, r \in RingOperands :
         /\ (IsGrouping(heap, l, r, "Sum") /\ Add(MaxRingExprs, l, r))
               => BuiltFlat("Sum", GroupingFlat(heap, l, r, "Sum"))
         /\ (IsGrouping(heap, l, r, "Product") /\ Mul(MaxRingExprs, l, r))
               => BuiltFlat("Product", GroupingFlat(heap, l, r, "Product"))]_vars

\* the factors of a product built with *: the operands, with nested
\* Products expanded
RECURSIVE Factors(_, _)
Factors(h, o) ==
    IF HasClass(h, o, "Product")
    THEN Concat([k \in 1..Len(h[o.n].children) |-> Factors(h, h[o.n].children[k])])
    ELSE <<o>>

IsXPlus1(h, o) == HasClass(h, o, "Sum") /\ h[o.n].children = <<Var(1), IntC(1)>>

\* the factors are the constant 2, the Variable x and the Sum x + 1
IsTwoXSum(h, fs) ==
    /\ Len(fs) = 3
    /\ \E i, j, k \in 1..3 :
         /\ {i, j, k} = {1, 2, 3}
         /\ fs[i] = IntC(2)
         /\ fs[j] = Var(1)
         /\ IsXPlus1(h, fs[k])

\* C2: Product display ordering.  Every product of 2, x and x + 1 built
\* with *, in any operand order and grouping, has a LaTeX string that
\* begins with the constant's LaTeX and ends with the bracketed sum.
C2_ProductDisplayOrder ==
    \A id \in 1..Len(heap) :
        (heap[id].cls = "Product" /\ IsTwoXSum(heap, Factors(heap, Ref(id))))
        => /\ StartsWith(heap[id].latex_str, <<"{", "{", "2", "}">>)
           /\ EndsWith(heap[id].latex_str,
                       <<"{", "(", "{", "x", "}", " ", "+", " ", "{", "1", "}", ")", "}", "}">>)

\* C10: the LaTeX of the Product a * b is never the LaTeX of the Sum a + b.
C10_ProductSumDistinct ==
    \A i, j \in 1..Len(heap) :
        (/\ heap[i].cls = "Product"
         /\ heap[j].cls = "Sum"
         /\ Len(heap[i].children) = 2
         /\ heap[i].children = heap[j].children)
        => heap[i].latex_str # heap[j].latex_str

(***************************************************************************)
(* Evaluation.                                                             *)
(***************************************************************************)
Undefined == Val("undefined", "", 0, 1, {})
Real(v) == IF v.k = "num" THEN Val("num", "real", v.n, v.d, {}) ELSE Undefined

\* the value of the arithmetic expression an object stands for, on its
\* operands in construction order, where that value is defined and exact
RECURSIVE Arith(_, _, _)
Arith(h, vo, o) ==
    IF IsConst(o) THEN Val("num", "real", o.n, 1, {})
    ELSE IF o.t = "var" THEN Real(vo[o.n].value)
    ELSE
    LET obj == h[o.n]
        args == [k \in 1..Len(obj.children) |-> Arith(h, vo, obj.children[k])]
        a == args[1]
        b == args[2]
    IN  IF \E k \in 1..Len(args) : args[k].k # "num" THEN Undefined
        ELSE CASE obj.cls = "Sum" -> Real(SumNums("real", args))
               [] obj.cls = "Product" -> Real(MulNums("real", args))
               [] obj.cls = "Operation" -> Real(Num("real", 0 - a.n, a.d))
               [] obj.cls = "Fraction" ->
                    IF Len(args) # 2 \/ b.n = 0 THEN Undefined
                    ELSE Real(Num("real", a.n * b.d, a.d * b.n))
               [] OTHER ->
                    IF Len(args) # 2 \/ b.d # 1 \/ (a.n = 0 /\ b.n < 0) THEN Undefined
                    ELSE IF b.n >= 0 THEN Real(NatPow(a, b.n))
                    ELSE Real(NatPow(Num("real", a.d, a.n), 0 - b.n))

SameNumber(v, w) == v.k = "num" /\ w.k = "num" /\ v.n = w.n /\ v.d = w.d

\* C4: evaluation correctness.  Once every reachable Variable is bound and
\* the arithmetic value is defined, evaluate() returns that value.
C4_EvaluationCorrect ==
    [][\A id \in 1..Len(heap) :
         (Evaluate(id) /\ Arith(heap, varobj, Ref(id)).k = "num")
         => SameNumber(last', Arith(heap, varobj, Ref(id)))]_vars

\* some Variable reachable from o has never been bound
RECURSIVE HasUnbound(_, _, _)
HasUnbound(h, vo, o) ==
    CASE IsConst(o) -> FALSE
      [] o.t = "var" -> vo[o.n].value = None
      [] OTHER -> \E k \in 1..Len(h[o.n].children) : HasUnbound(h, vo, h[o.n].children[k])

IsEvaluate == \E id \in 1..Len(heap) : Evaluate(id)

\* C5: unbound-variable error.  Building never fails for an unbound
\* Variable (a constructor only rejects an operand count), and evaluate()
\* on an expression with an unbound reachable Variable fails: it raises
\* and never returns.
C5_UnboundEvaluateFails ==
    [][/\ \A id \in 1..Len(heap) :
            (Evaluate(id) /\ HasUnbound(heap, varobj, Ref(id))) => last'.k = "raise"
       /\ (~IsEvaluate /\ last'.k = "raise") => last'.es \subseteq {"IndexError", "ValueError"}]_vars

\* C6: arity fail-fast.  Power(...) and Fraction(...) with an operand count
\* other than two fail at construction and build nothing.
C6_ArityFailFast ==
    [][\A inputs \in ArgLists :
         ((NewPower(MaxExprs, inputs) \/ NewFraction(MaxExprs, inputs)) /\ Len(inputs) # 2)
         => (last'.k = "raise" /\ heap' = heap)]_vars

(***************************************************************************)
(* Sum rendering.                                                          *)
(***************************************************************************)
\* an additive inverse: a negative constant, or an Expression tagged "neg"
IsAdditiveInverse(h, o) ==
    \/ IsConst(o) /\ o.n < 0
    \/ o.t = "op" /\ h[o.n].inverted = "neg"

\* reading latex from the right: operand k ends at endpos, each operand
\* after the first has " + " in front of it exactly when it is no additive
\* inverse, and the first operand starts right after the opening brace
RECURSIVE SumLatexReads(_, _, _, _, _)
SumLatexReads(h, latex, children, k, endpos) ==
    LET L == get_latex_repr(h, children[k])
        start == endpos - Len(L) + 1
        plus == start > 4 /\ SubSeq(latex, start - 3, start - 1) = <<" ", "+", " ">>
    IN  /\ start >= 2
        /\ SubSeq(latex, start, endpos) = L
        /\ IF k = 1 THEN start = 2
           ELSE /\ plus <=> ~IsAdditiveInverse(h, children[k])
                /\ SumLatexReads(h, latex, children, k - 1,
                                 IF plus THEN start - 4 ELSE start - 1)

\* C7: inversion-aware Sum rendering.  In the LaTeX of a Sum every operand
\* after the first follows its predecessor directly when it is an additive
\* inverse, and is prefixed by " + " otherwise.
C7_SumRendering ==
    \A id \in 1..Len(heap) :
        heap[id].cls = "Sum"
        => LET latex == heap[id].latex_str
           IN  /\ latex[1] = "{"
               /\ latex[Len(latex)] = "}"
               /\ SumLatexReads(heap, latex, heap[id].children,
                                Len(heap[id].children), Len(latex) - 1)

\* x + (-y) has been built and renders as {{x}{-{y}}}
C7_Witness ==
    \E id, j \in 1..Len(heap) :
        /\ heap[id].cls = "Sum"
        /\ heap[id].children = <<Var(1), Ref(j)>>
        /\ heap[j].inverted = "neg"
        /\ heap[j].children = <<Var(2)>>
        /\ heap[id].latex_str = <<"{", "{", "x", "}", "{", "-", "{", "y", "}", "}", "}">>

(***************************************************************************)
(* Immutability.                                                           *)
(***************************************************************************)
\* C9: immutability after construction.  No step (an operator, negate,
\* reciprocal, set_value, evaluate) changes the operand list, the text or
\* the LaTeX of an Expression that exists.
C9_Immutable ==
    [][\A id \in 1..Len(heap) :
         /\ id <= Len(heap')
         /\ heap'[id].children = heap[id].children
         /\ heap'[id].repr_str = heap[id].repr_str
         /\ heap'[id].latex_str = heap[id].latex_str]_vars

\* a Sum has been extended by + into a new, flattened Sum, x has been bound
\* and an evaluation has returned a number
C9_Witness ==
    /\ \E i, j \in 1..Len(heap) :
         /\ i < j
         /\ heap[i].cls = "Sum"
         /\ heap[j].cls = "Sum"
         /\ Len(heap[i].children) = 2
         /\ Len(heap[j].children) = 3
         /\ SubSeq(heap[j].children, 1, 2) = heap[i].children
         /\ heap[i].repr_str = Join(<<" ", "+", " ">>,
                                    [k \in 1..2 |-> Repr(heap, heap[i].children[k])])
    /\ varobj[1].value # None
    /\ last.k = "num"

(***************************************************************************)
(* Negation and reciprocal.                                                *)
(***************************************************************************)
IsNegationOf(h, k, o) == h[k].func = "__neg__" /\ h[k].children = <<o>>

\* C3: negation round trip.  For every e and every assignment binding all
\* its Variables, evaluating negate(negate(e)) returns the number e
\* evaluates to, and the text of negate(negate(e)) is "-(-<e>)".
C3_NegationRoundTrip ==
    [][\A j, k \in 1..Len(heap) :
         (/\ Evaluate(k)
          /\ IsNegationOf(heap, k, Ref(j))
          /\ heap[j].func = "__neg__"
          /\ ~HasUnbound(heap, varobj, Ref(j))
          /\ get_task(heap, varobj, heap[j].children[1]).k = "num")
         => /\ SameNumber(last', get_task(heap, varobj, heap[j].children[1]))
            /\ heap[k].repr_str = <<"-", "(", "-">>
                                    \o Repr(heap, heap[j].children[1]) \o <<")">>]_vars

IsFraction2(h, i) == h[i].cls = "Fraction" /\ Len(h[i].children) = 2
Reversed(s) == [k \in 1..Len(s) |-> s[Len(s) + 1 - k]]

\* C8: Fraction reciprocal.  f.reciprocal() of a Fraction f with operands
\* (n, d) returns a new Fraction with operands (d, n) and leaves f as it
\* was; the reciprocal of the reciprocal has the operands of f; and where
\* f evaluates to a nonzero number the reciprocal evaluates to 1 over it.
C8_FractionReciprocal ==
    /\ [](\A i, j \in 1..Len(heap) :
            (/\ IsFraction2(heap, i)
             /\ IsFraction2(heap, j)
             /\ heap[j].children = Reversed(heap[i].children)
             /\ compute(heap, varobj, i).k = "num"
             /\ compute(heap, varobj, i).n # 0)
            => LET f == compute(heap, varobj, i)
               IN  SameNumber(compute(heap, varobj, j), Num("float", f.d, f.n)))
    /\ [][\A a \in UnaryOperands :
            (Reciprocal(MaxUnaryExprs, a) /\ a.t = "op" /\ IsFraction2(heap, a.n))
            => /\ last' = Obj(NewId)
               /\ Len(heap') = NewId
               /\ heap'[NewId].cls = "Fraction"
               /\ heap'[NewId].children = Reversed(heap[a.n].children)
               /\ heap'[a.n].children = heap[a.n].children
               /\ heap'[a.n].repr_str = heap[a.n].repr_str
               /\ heap'[a.n].latex_str = heap[a.n].latex_str
               /\ \A g \in 1..Len(heap) :
                    (IsFraction2(heap, g)
                     /\ heap[a.n].children = Reversed(heap[g].children))
                    => heap'[NewId].children = heap[g].children]_vars

\* f, f.reciprocal() and its reciprocal have been built, f evaluates to a
\* nonzero number other than 1 and -1, and an evaluation has returned 1/f
C8_Witness ==
    \E j, k \in 1..Len(heap) :
        /\ IsFraction2(heap, 1) /\ IsFraction2(heap, j) /\ IsFraction2(heap, k)
        /\ 1 < j /\ j < k
        /\ heap[j].children = Reversed(heap[1].children)
        /\ heap[k].children = heap[1].children
        /\ compute(heap, varobj, 1).k = "num"
        /\ compute(heap, varobj, 1).n # compute(heap, varobj, 1).d
        /\ compute(heap, varobj, 1).n # 0
        /\ last = compute(heap, varobj, j)
        /\ last.k = "num"
        /\ last.n = compute(heap, varobj, 1).d

====
